---- MODULE Spec2Model ----
(***************************************************************************)
(* omst: "whomst thou art" as one character.                               *)
(*                                                                         *)
(* A state-machine model of the library (src/src/lib.rs), of its two       *)
(* platform back ends (src/src/shadow.rs for POSIX, src/src/winapi.rs for  *)
(* Windows) and of the binaries that print the result (src/src/omst.rs,    *)
(* src/src/omst_be.rs).  Bytes are their ASCII codes, byte strings are     *)
(* sequences of codes, and a libc::uid_t is a pair <<hi, lo>> of 16-bit    *)
(* limbs so that the whole u32 range, and the overflow of a parse, is      *)
(* represented exactly.                                                    *)
(***************************************************************************)
EXTENDS Integers, Sequences, FiniteSets, TLC

(***************************************************************************)
(* Option and Result.                                                      *)
(***************************************************************************)
None == <<>>

Some(v) == <<v>>

Ok(v) == [tag |-> "Ok", val |-> v]

Err(e) == [tag |-> "Err", err |-> e]

(***************************************************************************)
(* Bytes.                                                                  *)
(***************************************************************************)
\* b'#', the comment marker searched for at shadow.rs:180
HASH == 35

\* b'\n', the delimiter given to read_until at shadow.rs:164
NEWLINE == 10

\* b'?', the byte ResultExt::byte yields for an error (lib.rs:124)
QUESTION == 63

\* u8::is_ascii_whitespace: space, tab, line feed, form feed, carriage return
is_ascii_whitespace(b) == b \in {32, 9, 10, 12, 13}

\* the bytes a closure given to position or rposition accepts
Whitespace == {b \in 0..255 : is_ascii_whitespace(b)}

NotWhitespace == {b \in 0..255 : ~is_ascii_whitespace(b)}

\* b"UID_MIN" and b"UID_MAX", the keys matched at shadow.rs:197-198
KEY_UID_MIN == <<85, 73, 68, 95, 77, 73, 78>>

KEY_UID_MAX == <<85, 73, 68, 95, 77, 65, 88>>

SetMin(S) == CHOOSE x \in S : \A y \in S : x <= y

SetMax(S) == CHOOSE x \in S : \A y \in S : y <= x

\* let x = e; F(x), with e evaluated once
With(e, F(_)) == CHOOSE out \in {F(x) : x \in {e}} : TRUE

\* buf.iter().position(|b| ..): the 0-based index of the first byte the
\* closure accepts, the closure given as the set of bytes it accepts
position(buf, accepted) ==
    With({i \in 1..Len(buf) : buf[i] \in accepted},
         LAMBDA S : IF S = {} THEN None ELSE Some(SetMin(S) - 1))

\* buf.iter().rposition(|b| ..): the 0-based index of the last such byte
rposition(buf, accepted) ==
    With({i \in 1..Len(buf) : buf[i] \in accepted},
         LAMBDA S : IF S = {} THEN None ELSE Some(SetMax(S) - 1))

\* &buf[..pos]
SliceTo(buf, pos) == SubSeq(buf, 1, pos)

\* &buf[pos..]
SliceFrom(buf, pos) == SubSeq(buf, pos + 1, Len(buf))

(***************************************************************************)
(* libc::uid_t is u32: a value is <<hi, lo>> with hi, lo < 2^16.           *)
(***************************************************************************)
LimbBase == 65536

U32(hi, lo) == <<hi, lo>>

U32Zero == U32(0, 0)

U32Lt(a, b) == a[1] < b[1] \/ (a[1] = b[1] /\ a[2] < b[2])

U32Le(a, b) == a = b \/ U32Lt(a, b)

\* n.checked_mul(10).and_then(|n| n.checked_add(d)) on u32
CheckedMul10Add(n, d) ==
    LET lo == n[2] * 10 + d
        hi == n[1] * 10 + (lo \div LimbBase)
    IN  IF hi >= LimbBase THEN None ELSE Some(U32(hi, lo % LimbBase))

\* n.checked_mul(10).and_then(|n| n.checked_sub(d)) on u32
CheckedMul10Sub(n, d) ==
    IF n = U32Zero /\ d = 0 THEN Some(U32Zero) ELSE None

IsDigit(b) == b \in 48..57

(***************************************************************************)
(* atoi::atoi::<u32>, the crate function called at shadow.rs:219: an       *)
(* optional sign, then the longest run of decimal digits, checked for      *)
(* overflow; whatever follows the digits is ignored.  None when no byte    *)
(* was consumed or the number does not fit.                                *)
(***************************************************************************)
RECURSIVE FromRadix10Checked(_, _, _, _)
FromRadix10Checked(text, index, number, minus) ==
    IF index > Len(text) \/ ~IsDigit(text[index])
    THEN <<number, index - 1>>
    ELSE LET d == text[index] - 48
             next == IF number = None THEN None
                     ELSE IF minus THEN CheckedMul10Sub(number[1], d)
                     ELSE CheckedMul10Add(number[1], d)
         IN  FromRadix10Checked(text, index + 1, next, minus)

atoi(text) ==
    With(Len(text) > 0 /\ text[1] \in {43, 45}, LAMBDA signed :
    With(FromRadix10Checked(text, IF signed THEN 2 ELSE 1, Some(U32Zero),
                            Len(text) > 0 /\ text[1] = 45), LAMBDA r :
        IF r[2] = 0 \/ r[1] = None THEN None ELSE r[1]))

(***************************************************************************)
(* shadow.rs: errors.                                                      *)
(***************************************************************************)
LoginDefs(operation, error) ==
    [kind |-> "LoginDefs", operation |-> operation, error |-> error]

InvalidDef(def, problem) ==
    [kind |-> "InvalidDef", def |-> def, problem |-> problem]

Missing == [problem |-> "Missing"]

Empty == [problem |-> "Empty"]

Invalid(data) == [problem |-> "Invalid", data |-> data]

(***************************************************************************)
(* shadow.rs: login_defs_uid_range, one definition per step of its loop.   *)
(***************************************************************************)
\* vec.clear() at the head of each iteration: the buffer is emptied without
\* being cleared (a forgotten clear() lets read_until append to the old line)
vec_clear_forgotten(vec) == vec

\* vec.clear()
vec_clear(vec) == <<>>

\* BufRead::read_until(b'\n', &mut vec) on the bytes of the file from pos on:
\* appends up to and including the delimiter (or to the end of the file)
read_until(file, pos, delim, vec) ==
    With(SliceFrom(file, pos), LAMBDA rest :
    With(position(rest, {delim}), LAMBDA p :
    With(IF p = None THEN rest ELSE SliceTo(rest, p[1] + 1), LAMBDA chunk :
        [n |-> Len(chunk), vec |-> vec \o chunk, pos |-> pos + Len(chunk)])))

\* the end-of-input arm: min.ok_or(..)?, max.ok_or(..)?, Ok(min..=max)
eof_result(min, max) ==
    IF min = None THEN Err(InvalidDef("Min", Empty))
    ELSE IF max = None THEN Err(InvalidDef("Max", Empty))
    ELSE Ok(<<min[1], max[1]>>)

\* the comment marker taken to be the first '#' of the line
comment_pos_first(buf) == position(buf, {HASH})

\* buf.iter().rposition(|b| *b == b'#')
comment_pos(buf) == rposition(buf, {HASH})

\* the store of a parsed id that keeps an earlier value (first write wins)
store_def_keep_first(def, id, min, max) ==
    IF def = "Min"
    THEN [min |-> IF min = None THEN Some(id) ELSE min, max |-> max]
    ELSE [min |-> min, max |-> IF max = None THEN Some(id) ELSE max]

\* match def { Def::Min => min = Some(id), Def::Max => max = Some(id) }
store_def(def, id, min, max) ==
    IF def = "Min" THEN [min |-> Some(id), max |-> max]
    ELSE [min |-> min, max |-> Some(id)]

\* shadow.rs:180-184: the line up to its comment
strip_comment(buf) ==
    With(comment_pos(buf), LAMBDA cpos :
        IF cpos # None THEN SliceTo(buf, cpos[1]) ELSE buf)

\* shadow.rs:185-194: None for a line of whitespace (continue), else
\* Some(<<key, rest>>), the key and what follows it
split_key(buf) ==
    With(position(buf, NotWhitespace), LAMBDA key_pos :
        IF key_pos = None THEN None
        ELSE With(SliceFrom(buf, key_pos[1]), LAMBDA buf2 :
             With(position(buf2, Whitespace), LAMBDA space_pos :
                 IF space_pos # None
                 THEN Some(<<SliceTo(buf2, space_pos[1]), SliceFrom(buf2, space_pos[1])>>)
                 ELSE Some(<<buf2, <<>>>>))))

\* shadow.rs:196-200: the definition a key names, None for any other key
match_key(key) ==
    IF key = KEY_UID_MIN THEN Some("Min")
    ELSE IF key = KEY_UID_MAX THEN Some("Max")
    ELSE None

\* shadow.rs:202-217: None when nothing follows the key, else Some(val), the
\* bytes up to the next whitespace
value_token(buf) ==
    With(position(buf, NotWhitespace), LAMBDA val_pos :
        IF val_pos = None THEN None
        ELSE With(SliceFrom(buf, val_pos[1]), LAMBDA buf4 :
             With(position(buf4, Whitespace), LAMBDA end_pos :
                 IF end_pos # None THEN Some(SliceTo(buf4, end_pos[1])) ELSE Some(buf4))))

\* shadow.rs:219-230: the value parsed and stored, or the Invalid error
parse_value(def, val, min, max) ==
    With(atoi(val), LAMBDA id :
        IF id # None
        THEN With(store_def(def, id[1], min, max), LAMBDA st :
                 [min |-> st.min, max |-> st.max, ret |-> None])
        ELSE [min |-> min, max |-> max,
              ret |-> Some(Err(InvalidDef(def, Invalid(val))))])

\* The body of the loop after a line was read (shadow.rs:178-230):
\* [min, max, ret], where ret is None when the loop goes on and Some(result)
\* when the function returns.
parse_line(vec, min, max) ==
    With(split_key(strip_comment(vec)), LAMBDA kv :
        IF kv = None THEN [min |-> min, max |-> max, ret |-> None]
        ELSE With(match_key(kv[1][1]), LAMBDA def :
            IF def = None THEN [min |-> min, max |-> max, ret |-> None]
            ELSE With(value_token(kv[1][2]), LAMBDA val :
                IF val = None
                THEN [min |-> min, max |-> max,
                      ret |-> Some(Err(InvalidDef(def[1], Empty)))]
                ELSE parse_value(def[1], val[1], min, max))))

\* One iteration of the loop on the local state s = [vec, pos, min, max]:
\* clear, read a line, and either return at the end of input or parse it.
loop_iter(file, s) ==
    With(read_until(file, s.pos, NEWLINE, vec_clear(s.vec)), LAMBDA r :
        IF r.n = 0
        THEN [vec |-> r.vec, pos |-> r.pos, min |-> s.min, max |-> s.max,
              ret |-> Some(eof_result(s.min, s.max))]
        ELSE With(parse_line(r.vec, s.min, s.max), LAMBDA p :
                 [vec |-> r.vec, pos |-> r.pos, min |-> p.min, max |-> p.max,
                  ret |-> p.ret]))

\* The loop run to its return, on the local state s
RECURSIVE run_loop(_, _)
run_loop(file, s) ==
    With(loop_iter(file, s), LAMBDA r :
        IF r.ret # None THEN r.ret[1]
        ELSE run_loop(file, [vec |-> r.vec, pos |-> r.pos, min |-> r.min, max |-> r.max]))

\* login_defs_uid_range() on a regular file that opens: what it returns
login_defs_uid_range(file) ==
    run_loop(file, [vec |-> <<>>, pos |-> 0, min |-> None, max |-> None])

\* the range test with the lower bound taken as exclusive
classify_min_exclusive(eff, range) ==
    IF U32Le(eff, range[1]) THEN "BelowMin"
    ELSE IF U32Lt(range[2], eff) THEN "AboveMax"
    ELSE "InRange"

\* the closure given to map() at shadow.rs:259
classify(eff, range) ==
    IF U32Lt(eff, range[1]) THEN "BelowMin"
    ELSE IF U32Lt(range[2], eff) THEN "AboveMax"
    ELSE "InRange"

(***************************************************************************)
(* The contents /etc/login.defs may have: up to MaxLines lines drawn from  *)
(* LinePool, concatenated.  One pool line has no final newline, so a file  *)
(* may end without one, and a pool line that follows it continues the      *)
(* same line of the file.                                                  *)
(***************************************************************************)
MaxLines == 3

\* UID_MIN 1000 # comment\n
LINE_MIN_COMMENT == <<85, 73, 68, 95, 77, 73, 78, 32, 49, 48, 48, 48, 32, 35, 32, 99, 111, 109, 109, 101, 110, 116, 10>>

\* UID_MIN 1000#5\n
LINE_MIN_HASH == <<85, 73, 68, 95, 77, 73, 78, 32, 49, 48, 48, 48, 35, 53, 10>>

\*  \tUID_MIN\t500 \r\n
LINE_MIN_INDENTED == <<32, 9, 85, 73, 68, 95, 77, 73, 78, 9, 53, 48, 48, 32, 13, 10>>

\* UID_MAX 60000
LINE_MAX_UNTERMINATED == <<85, 73, 68, 95, 77, 65, 88, 32, 54, 48, 48, 48, 48>>

\* UID_MIN abc\n
LINE_MIN_ALPHA == <<85, 73, 68, 95, 77, 73, 78, 32, 97, 98, 99, 10>>

\* UID_MAX 2000abc\n
LINE_MAX_TRAILING == <<85, 73, 68, 95, 77, 65, 88, 32, 50, 48, 48, 48, 97, 98, 99, 10>>

\* UID_MAX 4294967296\n
LINE_MAX_OVERFLOW == <<85, 73, 68, 95, 77, 65, 88, 32, 52, 50, 57, 52, 57, 54, 55, 50, 57, 54, 10>>

\* UID_MAX\n
LINE_MAX_EMPTY == <<85, 73, 68, 95, 77, 65, 88, 10>>

\* UID_MIN #7 # c\n
LINE_MIN_TWO_HASHES == <<85, 73, 68, 95, 77, 73, 78, 32, 35, 55, 32, 35, 32, 99, 10>>

\* UID_MINX 5 # UID_MAX 9\n
LINE_OTHER_KEY == <<85, 73, 68, 95, 77, 73, 78, 88, 32, 53, 32, 35, 32, 85, 73, 68, 95, 77, 65, 88, 32, 57, 10>>

LinePool ==
    {LINE_MIN_COMMENT, LINE_MIN_HASH, LINE_MIN_INDENTED,
     LINE_MAX_UNTERMINATED, LINE_MIN_ALPHA, LINE_MAX_TRAILING,
     LINE_MAX_OVERFLOW, LINE_MAX_EMPTY, LINE_MIN_TWO_HASHES,
     LINE_OTHER_KEY}

RECURSIVE Concat(_)
Concat(ls) == IF ls = <<>> THEN <<>> ELSE Head(ls) \o Concat(Tail(ls))

Files == {Concat(ls) : ls \in UNION {[1..k -> LinePool] : k \in 0..MaxLines}}

\* what /etc/login.defs is: no such file, a file the process may not open,
\* a directory (open succeeds, read fails) or a regular file
FileKinds == {"missing", "noperm", "directory", "regular"}

\* the effective UIDs the process may run under
Euids == {U32(0, 0), U32(0, 500), U32(0, 60000)}

(***************************************************************************)
(* lib.rs: Permissions, its byte and its Display; the platform enums of    *)
(* shadow.rs (UidRange) and winapi.rs (Priv) and their conversions.        *)
(***************************************************************************)
PermissionsAll == {"Guest", "User", "System", "Absolute"}

UidRangeAll == {"AboveMax", "InRange", "BelowMin", "Zero"}

PrivAll == {"Guest", "User", "Admin"}

\* the discriminants with System given the code of Absolute
PermissionsByteClash(p) ==
    CASE p = "Guest" -> 37
      [] p = "User" -> 36
      [] p = "System" -> 35
      [] p = "Absolute" -> 35

\* Permissions::byte: self as u8, the #[repr(u8)] discriminant
PermissionsByte(p) ==
    CASE p = "Guest" -> 37
      [] p = "User" -> 36
      [] p = "System" -> 64
      [] p = "Absolute" -> 35

\* UidRange as u8
UidRangeByte(r) ==
    CASE r = "AboveMax" -> 37
      [] r = "InRange" -> 36
      [] r = "BelowMin" -> 64
      [] r = "Zero" -> 35

\* Priv as u8
PrivByte(p) ==
    CASE p = "Guest" -> 37
      [] p = "User" -> 36
      [] p = "Admin" -> 35

\* impl From<UidRange> for Permissions
PermissionsFromUidRange(r) ==
    CASE r = "AboveMax" -> "Guest"
      [] r = "InRange" -> "User"
      [] r = "BelowMin" -> "System"
      [] r = "Zero" -> "Absolute"

\* impl From<Priv> for Permissions
PermissionsFromPriv(p) ==
    CASE p = "Guest" -> "Guest"
      [] p = "User" -> "User"
      [] p = "Admin" -> "Absolute"

\* impl fmt::Display for Permissions
PermissionsDisplay(p) ==
    CASE p = "Guest" -> "guest"
      [] p = "User" -> "user"
      [] p = "System" -> "system"
      [] p = "Absolute" -> "aboslute"

\* the platform's result as the Result<Permissions, Error> that ResultExt is
\* implemented for
IntoPermissions(tgt, res) ==
    IF res.tag = "Err" THEN res
    ELSE IF tgt = "windows" THEN Ok(PermissionsFromPriv(res.val))
    ELSE Ok(PermissionsFromUidRange(res.val))

\* ResultExt::byte: self.map_or(b'?', Permissions::byte)
ResultByte(res) ==
    IF res.tag = "Ok" THEN PermissionsByte(res.val) ELSE QUESTION

HexDigit(d) == IF d < 10 THEN 48 + d ELSE 87 + d

RECURSIVE HexDigits(_)
HexDigits(n) ==
    IF n < 16 THEN <<HexDigit(n)>> ELSE Append(HexDigits(n \div 16), HexDigit(n % 16))

\* {data:#x}
HexAlternate(n) == <<48, 120>> \o HexDigits(n)

\* u8::escape_ascii of one byte
EscapeByte(b) ==
    CASE b = 9 -> <<92, 116>>
      [] b = 13 -> <<92, 114>>
      [] b = 10 -> <<92, 110>>
      [] b \in {39, 34, 92} -> <<92, b>>
      [] b \in 32..126 /\ b \notin {39, 34, 92} -> <<b>>
      [] OTHER -> <<92, 120, HexDigit(b \div 16), HexDigit(b % 16)>>

RECURSIVE escape_ascii(_)
escape_ascii(data) ==
    IF data = <<>> THEN <<>> ELSE EscapeByte(Head(data)) \o escape_ascii(Tail(data))

\* impl fmt::Display for Def
DefDisplay(def) == IF def = "Min" THEN "UID_MIN" ELSE "UID_MAX"

\* impl fmt::Display for Operation, of either platform
OperationDisplay(op) ==
    CASE op = "Open" -> "open"
      [] op = "Read" -> "read"
      [] op = "GetUserName" -> "get username"
      [] op = "NetUserGetInfo" -> "get user info"

\* What a Display impl writes: the pieces of text in order, with "{}" where
\* formatted bytes go, and those bytes
Written(text, data) == [text |-> text, data |-> data]

\* impl fmt::Display for Error, of either platform; an io::Error stands for
\* its own message
ErrorDisplay(e) ==
    CASE e.kind = "LoginDefs" ->
            Written(<<"could not ", OperationDisplay(e.operation),
                      " /etc/login.defs due to error: ", e.error>>, <<>>)
      [] e.kind = "InvalidDef" /\ e.problem.problem = "Missing" ->
            Written(<<DefDisplay(e.def), " in /etc/login.defs ", "was missing">>, <<>>)
      [] e.kind = "InvalidDef" /\ e.problem.problem = "Empty" ->
            Written(<<DefDisplay(e.def), " in /etc/login.defs ", "was empty">>, <<>>)
      [] e.kind = "InvalidDef" /\ e.problem.problem = "Invalid" ->
            Written(<<DefDisplay(e.def), " in /etc/login.defs ",
                      "was not a valid UID (", "{}", ")">>,
                    escape_ascii(e.problem.data))
      [] e.kind = "GetPriv" ->
            Written(<<"could not ", OperationDisplay(e.operation),
                      " due to error: ", "{os error}">>, <<e.error>>)
      [] e.kind = "InvalidPriv" ->
            Written(<<"user privileges had invalid value (", "{}", ")">>,
                    HexAlternate(e.data))

\* impl fmt::Display for DisplayResult
DisplayResult(res) ==
    IF res.tag = "Ok" THEN Written(<<PermissionsDisplay(res.val)>>, <<>>)
    ELSE ErrorDisplay(res.err)

(***************************************************************************)
(* winapi.rs: errors and the privilege codes of USER_INFO_1.usri1_priv.    *)
(***************************************************************************)
GetPriv(operation, error) ==
    [kind |-> "GetPriv", operation |-> operation, error |-> error]

InvalidPriv(data) == [kind |-> "InvalidPriv", data |-> data]

USER_PRIV_GUEST == 0

USER_PRIV_USER == 1

USER_PRIV_ADMIN == 2

\* the largest usri1_priv value NetUserGetInfo is let to report
MaxPrivCode == 3

\* the most calls of omst() one process makes
MaxCalls == 2

\* the failures GetUserNameW and NetUserGetInfo may report: ERROR_ACCESS_DENIED,
\* ERROR_INSUFFICIENT_BUFFER / NERR_UserNotFound
OsErrors == {5, 2221}

\* the address of the record NetUserGetInfo allocates
NULL == "null"

RECORD == "record"

\* the match on privs at winapi.rs:166-171
match_privs(privs) ==
    CASE privs = USER_PRIV_ADMIN -> Ok("Admin")
      [] privs = USER_PRIV_GUEST -> Ok("Guest")
      [] privs = USER_PRIV_USER -> Ok("User")
      [] OTHER -> Err(InvalidPriv(privs))

(***************************************************************************)
(* The state.  The environment: the build target (lib.rs:8-16), the        *)
(* effective UID, /etc/login.defs; what the process did to it: opened,     *)
(* acquired, freeCalls.  The locals of omst() and of login_defs_uid_range: *)
(* eff, vec, pos, min, max, ret, uinfo, privs.  The caller's view: result, *)
(* returned (the results of the calls that came back), stdout, exitCode.   *)
(***************************************************************************)
VARIABLES target, euid, fileKind, file, pc, calls, eff, opened, vec, pos,
          min, max, ret, result, returned, uinfo, record, privs, acquired,
          freeCalls, stdout, exitCode

vars == <<target, euid, fileKind, file, pc, calls, eff, opened, vec, pos,
          min, max, ret, result, returned, uinfo, record, privs, acquired,
          freeCalls, stdout, exitCode>>

env == <<target, euid, fileKind, file>>

posixLocals == <<eff, vec, pos, min, max, ret>>

winLocals == <<uinfo, privs>>

winHeap == <<record, acquired, freeCalls>>

output == <<stdout, exitCode>>

Init ==
    /\ target \in {"posix", "windows"}
    /\ euid \in Euids
    /\ fileKind \in FileKinds
    /\ file \in Files
    /\ target = "windows" => (euid = U32Zero /\ fileKind = "missing")
    /\ fileKind # "regular" => file = <<>>
    /\ pc = "omst"
    /\ calls = 1
    /\ eff = None
    /\ opened = FALSE
    /\ vec = <<>>
    /\ pos = 0
    /\ min = None
    /\ max = None
    /\ ret = None
    /\ result = None
    /\ returned = <<>>
    /\ uinfo = NULL
    /\ record = [state |-> "none", usri1_priv |-> 0]
    /\ privs = None
    /\ acquired = 0
    /\ freeCalls = <<>>
    /\ stdout = [bytes |-> <<>>, text |-> <<>>, data |-> <<>>]
    /\ exitCode = None

(***************************************************************************)
(* shadow.rs: omst().                                                      *)
(***************************************************************************)
\* geteuid() and the test for root, with the root test dropped
GeteuidNoShortCircuit ==
    /\ pc = "omst"
    /\ target = "posix"
    /\ eff' = Some(euid)
    /\ pc' = "open"
    /\ min' = None
    /\ max' = None
    /\ UNCHANGED <<env, calls, opened, vec, pos, ret, result, returned,
                   winLocals, winHeap, output>>

\* let eff = geteuid(); if eff == 0 { Ok(UidRange::Zero) } else enter
\* login_defs_uid_range with min = None, max = None
Geteuid ==
    /\ pc = "omst"
    /\ target = "posix"
    /\ eff' = Some(euid)
    /\ IF euid = U32Zero
       THEN /\ result' = Some(Ok("Zero"))
            /\ pc' = "done"
            /\ UNCHANGED <<min, max>>
       ELSE /\ pc' = "open"
            /\ min' = None
            /\ max' = None
            /\ UNCHANGED result
    /\ UNCHANGED <<env, calls, opened, vec, pos, ret, returned,
                   winLocals, winHeap, output>>

\* File::open("/etc/login.defs").map_err(..)?, BufReader::new, Vec::new()
OpenLoginDefs ==
    /\ pc = "open"
    /\ opened' = TRUE
    /\ IF fileKind \in {"missing", "noperm"}
       THEN /\ ret' = Some(Err(LoginDefs("Open",
                        IF fileKind = "missing" THEN "NotFound" ELSE "PermissionDenied")))
            /\ pc' = "map"
            /\ UNCHANGED <<vec, pos>>
       ELSE /\ pc' = "loop"
            /\ vec' = <<>>
            /\ pos' = 0
            /\ UNCHANGED ret
    /\ UNCHANGED <<env, calls, eff, min, max, result, returned,
                   winLocals, winHeap, output>>

\* one iteration of the loop of login_defs_uid_range
ReadLine ==
    /\ pc = "loop"
    /\ IF fileKind = "directory"
       THEN /\ vec' = vec_clear(vec)
            /\ ret' = Some(Err(LoginDefs("Read", "IsADirectory")))
            /\ pc' = "map"
            /\ UNCHANGED <<pos, min, max>>
       ELSE \E r \in {loop_iter(file, [vec |-> vec, pos |-> pos, min |-> min, max |-> max])} :
                /\ vec' = r.vec
                /\ pos' = r.pos
                /\ min' = r.min
                /\ max' = r.max
                /\ ret' = r.ret
                /\ pc' = IF r.ret = None THEN "loop" ELSE "map"
    /\ UNCHANGED <<env, calls, eff, opened, result, returned,
                   winLocals, winHeap, output>>

\* login_defs_uid_range().map(|range| ..)
MapRange ==
    /\ pc = "map"
    /\ result' = IF ret[1].tag = "Ok"
                 THEN Some(Ok(classify(eff[1], ret[1].val)))
                 ELSE ret
    /\ pc' = "done"
    /\ UNCHANGED <<env, calls, eff, opened, vec, pos, min, max, ret, returned,
                   winLocals, winHeap, output>>

(***************************************************************************)
(* winapi.rs: omst() and the drop of its UserInfoPtr.                      *)
(***************************************************************************)
\* GetUserNameW(uname, &mut ulen); a zero return is the error
GetUserName ==
    /\ pc = "omst"
    /\ target = "windows"
    /\ \/ /\ pc' = "NetUserGetInfo"
          /\ UNCHANGED result
       \/ \E e \in OsErrors :
             /\ result' = Some(Err(GetPriv("GetUserName", e)))
             /\ pc' = "done"
    /\ UNCHANGED <<env, calls, posixLocals, opened, returned,
                   winLocals, winHeap, output>>

\* let mut uinfo = UserInfoPtr(null); NetUserGetInfo(null, uname, 1, &mut uinfo):
\* on success the system allocates the record and stores its address
NetUserGetInfo ==
    /\ pc = "NetUserGetInfo"
    /\ \/ \E p \in 0..MaxPrivCode :
             /\ uinfo' = RECORD
             /\ record' = [state |-> "live", usri1_priv |-> p]
             /\ acquired' = acquired + 1
             /\ pc' = "read_priv"
             /\ UNCHANGED result
       \/ \E e \in OsErrors :
             /\ uinfo' = NULL
             /\ result' = Some(Err(GetPriv("NetUserGetInfo", e)))
             /\ pc' = "drop"
             /\ UNCHANGED <<record, acquired>>
    /\ UNCHANGED <<env, calls, posixLocals, opened, returned, privs,
                   freeCalls, output>>

\* let privs = (*uinfo.0).usri1_priv; and the match that makes the result
ReadPriv ==
    /\ pc = "read_priv"
    /\ privs' = Some(record.usri1_priv)
    /\ result' = Some(match_privs(record.usri1_priv))
    /\ pc' = "drop"
    /\ UNCHANGED <<env, calls, posixLocals, opened, returned, uinfo,
                   winHeap, output>>

\* Drop for UserInfoPtr without the test for null
DropUnconditional ==
    /\ pc = "drop"
    /\ uinfo' = NULL
    /\ \E status \in {0} \cup OsErrors :
          /\ freeCalls' = Append(freeCalls, [ptr |-> uinfo, status |-> status])
          /\ IF status = 0
             THEN /\ record' = IF uinfo = NULL THEN record
                               ELSE [record EXCEPT !.state = "freed"]
                  /\ pc' = "done"
                  /\ UNCHANGED result
             ELSE /\ pc' = "aborted"
                  /\ result' = None
                  /\ UNCHANGED record
    /\ UNCHANGED <<env, calls, posixLocals, opened, returned, privs, acquired,
                   output>>

\* Drop for UserInfoPtr, run when omst() returns with uinfo in scope:
\* NetApiBufferFree on a non-null pointer, abort() on a non-zero status
Drop ==
    /\ pc = "drop"
    /\ IF uinfo # NULL
       THEN /\ uinfo' = NULL
            /\ \E status \in {0} \cup OsErrors :
                  /\ freeCalls' = Append(freeCalls, [ptr |-> uinfo, status |-> status])
                  /\ IF status = 0
                     THEN /\ record' = [record EXCEPT !.state = "freed"]
                          /\ pc' = "done"
                          /\ UNCHANGED result
                     ELSE /\ pc' = "aborted"
                          /\ result' = None
                          /\ UNCHANGED record
       ELSE /\ pc' = "done"
            /\ UNCHANGED <<uinfo, freeCalls, record, result>>
    /\ UNCHANGED <<env, calls, posixLocals, opened, returned, privs, acquired,
                   output>>

(***************************************************************************)
(* The callers: a library user calling omst() again, and the binaries.     *)
(***************************************************************************)
\* omst() has returned and the process calls it again
CallAgain ==
    /\ pc = "done"
    /\ calls < MaxCalls
    /\ calls' = calls + 1
    /\ returned' = Append(returned, result[1])
    /\ result' = None
    /\ pc' = "omst"
    /\ eff' = None
    /\ vec' = <<>>
    /\ pos' = 0
    /\ min' = None
    /\ max' = None
    /\ ret' = None
    /\ privs' = None
    /\ UNCHANGED <<env, opened, uinfo, winHeap, output>>

\* omst.rs main: write omst.be() and a newline, exit FAILURE on an error
WriteBe ==
    /\ pc = "done"
    /\ stdout' = [stdout EXCEPT
                      !.bytes = <<ResultByte(IntoPermissions(target, result[1])), NEWLINE>>]
    /\ exitCode' = Some(IF result[1].tag = "Err" THEN "FAILURE" ELSE "SUCCESS")
    /\ pc' = "exit_omst"
    /\ UNCHANGED <<env, calls, posixLocals, opened, result, returned,
                   winLocals, winHeap>>

\* omst_be.rs main: write omst.display() and a newline
WriteDisplay ==
    /\ pc = "done"
    /\ \E d \in {DisplayResult(IntoPermissions(target, result[1]))} :
          stdout' = [stdout EXCEPT !.text = d.text \o <<"\n">>, !.data = d.data]
    /\ exitCode' = Some(IF result[1].tag = "Err" THEN "FAILURE" ELSE "SUCCESS")
    /\ pc' = "exit_omst_be"
    /\ UNCHANGED <<env, calls, posixLocals, opened, result, returned,
                   winLocals, winHeap>>

Next ==
    \/ Geteuid
    \/ OpenLoginDefs
    \/ ReadLine
    \/ MapRange
    \/ GetUserName
    \/ NetUserGetInfo
    \/ ReadPriv
    \/ Drop
    \/ CallAgain
    \/ WriteBe
    \/ WriteDisplay

Spec == Init /\ [][Next]_vars

(***************************************************************************)
(* What the properties below speak of: the lines of the file, the text of  *)
(* a line before its last '#', and its whitespace-separated tokens.  These *)
(* are stated on their own, not through the parser's cursor arithmetic.    *)
(***************************************************************************)
RECURSIVE FileLines(_)
FileLines(f) ==
    IF f = <<>> THEN <<>>
    ELSE IF \E i \in 1..Len(f) : f[i] = NEWLINE
    THEN LET k == CHOOSE i \in 1..Len(f) : f[i] = NEWLINE /\ \A j \in 1..(i - 1) : f[j] # NEWLINE
         IN  <<SubSeq(f, 1, k - 1)>> \o FileLines(SubSeq(f, k + 1, Len(f)))
    ELSE <<f>>

RECURSIVE JoinLines(_)
JoinLines(ls) ==
    IF ls = <<>> THEN <<>> ELSE Head(ls) \o <<NEWLINE>> \o JoinLines(Tail(ls))

BeforeLastHash(line) ==
    IF \E i \in 1..Len(line) : line[i] = HASH
    THEN LET k == CHOOSE i \in 1..Len(line) :
                      line[i] = HASH /\ \A j \in (i + 1)..Len(line) : line[j] # HASH
         IN  SubSeq(line, 1, k - 1)
    ELSE line

RECURSIVE Tokens(_)
Tokens(buf) ==
    IF buf = <<>> THEN <<>>
    ELSE IF is_ascii_whitespace(buf[1]) THEN Tokens(Tail(buf))
    ELSE LET ws == {i \in 1..Len(buf) : is_ascii_whitespace(buf[i])}
             n == IF ws = {} THEN Len(buf) ELSE SetMin(ws) - 1
         IN  <<SubSeq(buf, 1, n)>> \o Tokens(SubSeq(buf, n + 1, Len(buf)))

LineTokens(line) == Tokens(BeforeLastHash(line))

TokensDef(t) ==
    IF t = <<>> THEN "none"
    ELSE IF t[1] = KEY_UID_MIN THEN "Min"
    ELSE IF t[1] = KEY_UID_MAX THEN "Max"
    ELSE "none"

\* the definition a line is about: "Min", "Max" or "none"
LineDef(line) == TokensDef(LineTokens(line))

LineHasValue(line) == Len(LineTokens(line)) >= 2

LineValue(line) == LineTokens(line)[2]

AllDigits(tok) == tok # <<>> /\ \A i \in 1..Len(tok) : IsDigit(tok[i])

\* the error a line of a definition draws by itself, None when it has none
LineError(line) ==
    LET t == LineTokens(line)
    IN  IF TokensDef(t) = "none" THEN None
        ELSE IF Len(t) < 2 THEN Some(Err(InvalidDef(TokensDef(t), Empty)))
        ELSE IF atoi(t[2]) = None
        THEN Some(Err(InvalidDef(TokensDef(t), Invalid(t[2]))))
        ELSE None

DefLines(f, def) ==
    LET L == FileLines(f) IN {i \in 1..Len(L) : LineDef(L[i]) = def}

\* the login_defs_uid_range call has just returned into ret
Returned == target = "posix" /\ pc = "map"

\* a line was read and parsed by the last step of the loop; vec holds it
LineParsed ==
    target = "posix" /\ fileKind = "regular" /\ pc \in {"loop", "map"} /\ vec # <<>>

\* omst() has returned its result and the process has not gone on
AtReturn == pc \in {"done", "exit_omst", "exit_omst_be"}

(***************************************************************************)
(* C1.  POSIX omst() under effective UID 0 returns Ok(UidRange::Zero),     *)
(* which converts to Permissions::Absolute, whatever /etc/login.defs is    *)
(* (missing, unreadable, a directory, or a regular file of any content):   *)
(* the call is over at once, never reaches the open of the file and        *)
(* returns no error.                                                       *)
(***************************************************************************)
C1_RootShortCircuit ==
    (target = "posix" /\ eff = Some(U32Zero)) =>
        /\ AtReturn
        /\ result = Some(Ok("Zero"))
        /\ IntoPermissions(target, result[1]) = Ok("Absolute")
        /\ ~opened
        /\ ret = None

C1_Witness ==
    /\ target = "posix"
    /\ eff = Some(U32Zero)
    /\ fileKind = "missing"
    /\ pc = "done"
    /\ result = Some(Ok("Zero"))

(***************************************************************************)
(* C2.  For a non-zero effective UID u and a parsed range [min, max] with  *)
(* min <= max, omst() returns exactly one tier: System when u < min, User  *)
(* when min <= u <= max (both ends included), Guest when u > max.          *)
(***************************************************************************)
C2_Tier ==
    (/\ target = "posix"
     /\ AtReturn
     /\ eff # Some(U32Zero)
     /\ ret # None
     /\ ret[1].tag = "Ok"
     /\ U32Le(ret[1].val[1], ret[1].val[2])) =>
        LET u == eff[1]
            lo == ret[1].val[1]
            hi == ret[1].val[2]
            tier == IntoPermissions(target, result[1])
        IN  /\ U32Lt(u, lo) => tier = Ok("System")
            /\ (U32Le(lo, u) /\ U32Le(u, hi)) => tier = Ok("User")
            /\ U32Lt(hi, u) => tier = Ok("Guest")

C2_Witness ==
    /\ target = "posix"
    /\ pc = "done"
    /\ eff = Some(U32(0, 500))
    /\ ret # None
    /\ ret[1] = Ok(<<U32(0, 500), U32(0, 60000)>>)
    /\ result = Some(Ok("InRange"))

(***************************************************************************)
(* C3.  When the input is exhausted, UID_MIN was parsed and no UID_MAX     *)
(* line was seen, login_defs_uid_range returns InvalidDef for UID_MAX with *)
(* the problem Missing ("Definition was missing"), not Empty.              *)
(***************************************************************************)
C3_MissingMax ==
    (/\ Returned
     /\ fileKind = "regular"
     /\ pos = Len(file)
     /\ min # None
     /\ DefLines(file, "Max") = {}) =>
        ret = Some(Err(InvalidDef("Max", Missing)))

(***************************************************************************)
(* C4.  The value token of a UID_MIN or UID_MAX line is accepted only if   *)
(* the whole token is decimal digits that fit the UID type; any other      *)
(* token (a non-digit anywhere, or an overflow) makes the parser return    *)
(* InvalidDef for that definition with problem Invalid and the token as    *)
(* its data.                                                               *)
(***************************************************************************)
C4_WholeTokenDigits ==
    (/\ LineParsed
     /\ LineDef(vec) # "none"
     /\ LineHasValue(vec)
     /\ ~(AllDigits(LineValue(vec)) /\ atoi(LineValue(vec)) # None)) =>
        ret = Some(Err(InvalidDef(LineDef(vec), Invalid(LineValue(vec)))))

(***************************************************************************)
(* C5.  Each line is cut at its LAST '#' and only what precedes it is      *)
(* parsed: "UID_MIN 1000 # comment" and "UID_MIN 1000#5" both set          *)
(* UID_MIN = 1000, and on a line with several '#' the earlier ones are     *)
(* part of the key/value text.  The effect of the line just parsed is the  *)
(* one its tokens before the last '#' call for.                            *)
(***************************************************************************)
C5_LastHashCut ==
    LineParsed =>
        LET t == LineTokens(vec)
            def == TokensDef(t)
            error == LineError(vec)
        IN  /\ vec = LINE_MIN_COMMENT => (min = Some(U32(0, 1000)) /\ ret = None)
            /\ vec = LINE_MIN_HASH => (min = Some(U32(0, 1000)) /\ ret = None)
            /\ def = "none" => ret = None
            /\ def # "none" =>
                  IF error # None THEN ret = error
                  ELSE /\ ret = None
                       /\ def = "Min" => min = atoi(t[2])
                       /\ def = "Max" => max = atoi(t[2])

C5_Witness ==
    /\ LineParsed
    /\ vec = LINE_MIN_TWO_HASHES
    /\ ret = Some(Err(InvalidDef("Min", Invalid(<<35, 55>>))))

LowercaseWord(p) ==
    CASE p = "Guest" -> "guest"
      [] p = "User" -> "user"
      [] p = "System" -> "system"
      [] p = "Absolute" -> "absolute"

C7_DisplayWord ==
    (pc = "exit_omst_be" /\ result[1].tag = "Ok") =>
        stdout.text = <<LowercaseWord(IntoPermissions(target, result[1]).val), "\n">>

(***************************************************************************)
(* C8.  Permissions::byte is injective over the four variants ('%', '$',   *)
(* '@', '#'), so the byte read back as a Permissions is the tier it came   *)
(* from; UidRange and Priv carry the byte of the Permissions they convert  *)
(* to; and no tier's byte is the '?' written for an error.                 *)
(***************************************************************************)
Reinterpret(b) == CHOOSE p \in PermissionsAll : PermissionsByte(p) = b

C8_ByteRoundTrip ==
    /\ \A p \in PermissionsAll :
          /\ Reinterpret(PermissionsByte(p)) = p
          /\ PermissionsByte(p) # QUESTION
          /\ PermissionsByte(p) \in {37, 36, 64, 35}
    /\ \A r \in UidRangeAll : UidRangeByte(r) = PermissionsByte(PermissionsFromUidRange(r))
    /\ \A v \in PrivAll : PrivByte(v) = PermissionsByte(PermissionsFromPriv(v))
    /\ pc = "exit_omst" =>
          IF result[1].tag = "Ok"
          THEN /\ Reinterpret(stdout.bytes[1]) = IntoPermissions(target, result[1]).val
               /\ stdout.bytes[1] # QUESTION
               /\ stdout.bytes[1] = IF target = "windows" THEN PrivByte(result[1].val)
                              ELSE UidRangeByte(result[1].val)
          ELSE stdout.bytes[1] = QUESTION

C8_Witness ==
    /\ pc = "exit_omst"
    /\ target = "posix"
    /\ result = Some(Ok("BelowMin"))
    /\ stdout.bytes = <<64, NEWLINE>>

(***************************************************************************)
(* C9.  For a config in which UID_MIN and UID_MAX each appear at most      *)
(* once, the outcome of login_defs_uid_range (the range, or the error with *)
(* its definition and problem) is the same for every permutation of the    *)
(* lines, and a second call on the same input returns what the first did.  *)
(***************************************************************************)
KeysAtMostOnce ==
    Cardinality(DefLines(file, "Min")) <= 1 /\ Cardinality(DefLines(file, "Max")) <= 1

Permuted(L, f) == [i \in 1..Len(L) |-> L[f[i]]]

SameOnSecondCall ==
    (target = "posix" /\ AtReturn) => \A i \in 1..Len(returned) : returned[i] = result[1]

\* the orders the lines of the file can be put in
Orders(L) == {Permuted(L, f) : f \in Permutations(1..Len(L))}

\* the first call of login_defs_uid_range has just returned, and the file has
\* each key at most once
OnceReturned ==
    Returned /\ calls = 1 /\ fileKind = "regular" /\ KeysAtMostOnce

C9_Original ==
    /\ OnceReturned =>
          \A P \in Orders(FileLines(file)) :
             login_defs_uid_range(JoinLines(P)) = ret[1]
    /\ SameOnSecondCall

\* C9 as amended: the outcome is the same for every permutation unless both
\* definitions have a malformed line (empty or invalid value); then parsing
\* fails in every order, with the error of whichever malformed line comes
\* first.  A second call on the same input returns what the first did.
C9_OrderIndependent ==
    /\ OnceReturned =>
          LET L == FileLines(file)
              bad(P) == {i \in 1..Len(P) : LineError(P[i]) # None}
              nbad == Cardinality(bad(L))
          IN  \A P \in Orders(L) :
                 LET o == login_defs_uid_range(JoinLines(P))
                 IN  IF nbad <= 1 THEN o = ret[1]
                     ELSE Some(o) = LineError(P[SetMin(bad(P))])
    /\ SameOnSecondCall

C9_Witness ==
    /\ target = "posix"
    /\ pc = "done"
    /\ calls = 2
    /\ fileKind = "regular"
    /\ KeysAtMostOnce
    /\ Len(FileLines(file)) = 3
    /\ DefLines(file, "Max") # {} /\ DefLines(file, "Min") # {}
    /\ SetMin(DefLines(file, "Max")) < SetMin(DefLines(file, "Min"))
    /\ ret # None
    /\ ret[1].tag = "Ok"
    /\ returned = <<result[1]>>

(***************************************************************************)
(* C10.  Windows omst() passes the record got from NetUserGetInfo to       *)
(* NetApiBufferFree exactly once on every exit path (success, GetUserNameW *)
(* failure, NetUserGetInfo failure, invalid privilege).                    *)
(***************************************************************************)
Exited == pc \in {"done", "aborted", "exit_omst", "exit_omst_be"}

C10_Original ==
    (target = "windows" /\ Exited) => Len(freeCalls) = calls

\* C10 as amended: the record is released exactly once on every exit path
\* on which NetUserGetInfo handed one out (success and invalid privilege),
\* and NetApiBufferFree is not called at all on the GetUserNameW-failure
\* and NetUserGetInfo-failure paths, where no record was acquired: never
\* twice, never on a null pointer, only after the privilege field was read;
\* and a non-zero status of the release aborts the process, so that no
\* Result is returned.
C10_ReleaseOnce ==
    target = "windows" =>
        /\ \A i \in 1..Len(freeCalls) : freeCalls[i].ptr = RECORD
        /\ Len(freeCalls) <= acquired
        /\ (Exited \/ pc = "omst") => Len(freeCalls) = acquired
        /\ pc \in {"read_priv", "drop"} =>
              Len(freeCalls) = IF uinfo = NULL THEN acquired ELSE acquired - 1
        /\ (pc = "drop" /\ uinfo # NULL) => (privs # None /\ record.state = "live")
        /\ (AtReturn /\ result[1].tag = "Err" /\ result[1].err.kind = "GetPriv") =>
              (record.state = "none" \/ calls > 1)
        /\ pc = "aborted" <=> \E i \in 1..Len(freeCalls) : freeCalls[i].status # 0
        /\ pc = "aborted" => result = None
        /\ AtReturn => result # None

C10_Witness ==
    /\ target = "windows"
    /\ pc = "done"
    /\ calls = 1
    /\ result = Some(Err(InvalidPriv(3)))
    /\ freeCalls = <<[ptr |-> RECORD, status |-> 0]>>
    /\ record.state = "freed"

====
